---- MODULE Spec2Model ----
(***************************************************************************)
(* The WebSocket session (src/src/websocket.rs) and the REST client         *)
(* (src/src/rest.rs) of polygon-client-rs.                                 *)
(*                                                                         *)
(* A Rust String is modelled as a sequence of one-character strings, so    *)
(* that format! and join are computed character by character.  The payload *)
(* of an inbound frame is never inspected by the client and is modelled as *)
(* an opaque value.                                                        *)
(*                                                                         *)
(* The transport (tokio_tungstenite::WebSocketStream) and the process      *)
(* environment are the session's surroundings: the server delivers frames, *)
(* the peer closes the connection or the connection breaks.  The HTTP      *)
(* client (reqwest) and the REST server are the REST client's surroundings: *)
(* a request is answered by a response or fails in the network.            *)
(***************************************************************************)
EXTENDS Integers, Sequences, FiniteSets, TLC

VARIABLES
    env,        \* the process environment variable POLYGON_AUTH_KEY
    pc,         \* where the caller is: "start", "idle", "in_receive", "failed",
                \* "dropped" (the caller dropped the session)
    args,       \* the arguments of the call of new, and the environment it saw
    wsc,        \* the WebSocketClient object the caller holds
    connects,   \* the URLs handed to connect_async, in order
    link,       \* the connection: "none", "up", "closed" (by the peer), "broken",
                \* "dropped" (by the client)
    ended,      \* the stream of the transport is fused: it yields no more items
    sent,       \* the frames written to the transport, in order
    inbound,    \* the frames the transport holds, not yet read
    delivered,  \* every frame the transport was given by the server, in order
    received,   \* every frame a receive returned as Ok, in order
    calls,      \* the subscribe/unsubscribe calls made, in invocation order
    result,     \* what the last call returned
    polled,     \* the value of self.websocket.next().await in the receive that
                \* returned last, until the next call
    api_url_env, \* the process environment variable POLYGON_API_URL
    rpc,        \* where the caller of the REST client is: "start", "ready",
                \* "in_call", "panicked"
    rargs,      \* the arguments of the call of RESTClient::new, and the
                \* environment it saw
    rest,       \* the RESTClient object the caller holds
    rcall,      \* the endpoint call made last: its method and arguments
    requests,   \* the HTTP requests the endpoint call made last has issued
    response,   \* what came back for the request issued last
    rresult     \* what the call of the REST client made last returned

\* The variables of the WebSocket session, env apart.
wsvars == <<pc, args, wsc, connects, link, ended, sent, inbound,
            delivered, received, calls, result, polled>>

\* The variables of the REST client, env apart.
restvars == <<api_url_env, rpc, rargs, rest, rcall, requests, response, rresult>>

vars == <<env, wsvars, restvars>>

----------------------------------------------------------------------------
(* Bounds of the model. *)

\* The events of one session: the subscribe/unsubscribe calls the caller
\* makes plus the frames the server delivers.
MaxEvents == 3

----------------------------------------------------------------------------
(* Constants of the program. *)

Q == "\""

STOCKS_CLUSTER == <<"s","t","o","c","k","s">>
FOREX_CLUSTER == <<"f","o","r","e","x">>
CRYPTO_CLUSTER == <<"c","r","y","p","t","o">>

DEFAULT_WS_HOST ==
    <<"w","s","s",":","/","/","s","o","c","k","e","t",".",
      "p","o","l","y","g","o","n",".","i","o">>

----------------------------------------------------------------------------
(* The inputs the model draws from. *)

\* new takes cluster as a free-form &str: the three named clusters and one
\* string that is none of them.
OtherCluster == <<"a"," ","b">>
Clusters == {STOCKS_CLUSTER, FOREX_CLUSTER, CRYPTO_CLUSTER, OtherCluster}

K1 == <<"k","1">>
K2 == <<"k","2">>
E1 == <<"e","n","v","k">>

\* Option<&str>
NoneKey == [some |-> FALSE, v |-> <<>>]
SomeKey(k) == [some |-> TRUE, v |-> k]
KeyArgs == {NoneKey, SomeKey(K1)}

\* env::var("POLYGON_AUTH_KEY"): Ok(v) when set, Err(NotPresent) when not
EnvUnset == [state |-> "NotPresent", v |-> <<>>]
EnvSet(k) == [state |-> "Ok", v |-> k]
EnvValues == {EnvUnset, EnvSet(E1)}

TMSFT == <<"T",".","M","S","F","T">>
QAAPL == <<"Q",".","A","A","P","L">>
PatternLists == {<<TMSFT>>, <<TMSFT, QAAPL>>}

\* Credentials and patterns that hold a double quote or a backslash:
\* a"b and a\b, T."X and T.\
QuoteKey == <<"a", Q, "b">>
BackslashKey == <<"a", "\\", "b">>
QuotePattern == <<"T", ".", Q, "X">>
BackslashPattern == <<"T", ".", "\\">>
EscapeKeyArgs == {SomeKey(K1), SomeKey(QuoteKey), SomeKey(BackslashKey)}
EscapePatternLists == {<<TMSFT>>, <<QuotePattern>>, <<TMSFT, BackslashPattern>>}

\* The pattern lists at the edge: the empty list, the list of one empty
\* pattern, and a list of one pattern.
EmptyPattern == << >>
EdgePatternLists == {<< >>, <<EmptyPattern>>, <<EmptyPattern, EmptyPattern>>, <<TMSFT>>}

\* tungstenite::Message
Text(payload) == [kind |-> "Text", payload |-> payload]
NoMsg == [kind |-> "none", payload |-> ""]

\* Frames of the server: the status frame of an accepted authentication, the
\* status frame of a refused one, and a frame holding two events.
StatusConnected == Text("[{ev:status,status:connected}]")
StatusAuthFailed == Text("[{ev:status,status:auth_failed}]")
TwoEvents == Text("[{ev:T,sym:MSFT},{ev:Q,sym:AAPL}]")
ServerFrames == {StatusConnected, StatusAuthFailed, TwoEvents}

----------------------------------------------------------------------------
(* Pure functions of the program. *)

\* Variant: a missing variable read as the empty credential (unwrap_or_default).
ResolveKey_DefaultEmpty(auth_key, e) ==
    IF auth_key.some THEN [ok |-> TRUE, v |-> auth_key.v]
    ELSE [ok |-> TRUE, v |-> e.v]

\* websocket.rs:68-71
ResolveKey(auth_key, e) ==
    IF auth_key.some THEN [ok |-> TRUE, v |-> auth_key.v]
    ELSE IF e.state = "Ok" THEN [ok |-> TRUE, v |-> e.v]
    ELSE [ok |-> FALSE, v |-> <<>>]

\* Variant: the format string without its "/".
UrlStr_NoSlash(cluster) == DEFAULT_WS_HOST \o cluster

\* websocket.rs:73  format!("{}/{}", DEFAULT_WS_HOST, cluster)
UrlStr(cluster) == DEFAULT_WS_HOST \o <<"/">> \o cluster

\* websocket.rs:74  Url::parse percent-encodes a space of the path; the
\* authority of url_str is always DEFAULT_WS_HOST's, so parsing succeeds.
RECURSIVE PercentEncode(_)
PercentEncode(s) ==
    IF s = << >> THEN << >>
    ELSE (IF Head(s) = " " THEN <<"%","2","0">> ELSE <<Head(s)>>)
         \o PercentEncode(Tail(s))

UrlParse(url_str) == PercentEncode(url_str)

\* Variant: the patterns concatenated with nothing between them.
RECURSIVE Join_NoSeparator(_, _)
Join_NoSeparator(params, sep) ==
    IF params = << >> THEN << >>
    ELSE params[1] \o Join_NoSeparator(Tail(params), sep)

\* [&str]::join
RECURSIVE Join(_, _)
Join(params, sep) ==
    IF params = << >> THEN << >>
    ELSE IF Len(params) = 1 THEN params[1]
    ELSE params[1] \o sep \o Join(Tail(params), sep)

\* websocket.rs:88
AuthMsg(auth_key) ==
    <<"{",Q,"a","c","t","i","o","n",Q,":",Q,"a","u","t","h",Q,",",
      Q,"p","a","r","a","m","s",Q,":",Q>> \o auth_key \o <<Q,"}">>

\* websocket.rs:95-98
SubscribeMsg(params) ==
    <<"{",Q,"a","c","t","i","o","n",Q,":",Q,
      "s","u","b","s","c","r","i","b","e",Q,",",
      Q,"p","a","r","a","m","s",Q,":",Q>> \o Join(params, <<",">>) \o <<Q,"}">>

\* Variant: unsubscribe with the format string of subscribe.
UnsubscribeMsg_CopyPaste(params) ==
    <<"{",Q,"a","c","t","i","o","n",Q,":",Q,
      "s","u","b","s","c","r","i","b","e",Q,",",
      Q,"p","a","r","a","m","s",Q,":",Q>> \o Join(params, <<",">>) \o <<Q,"}">>

\* websocket.rs:105-108
UnsubscribeMsg(params) ==
    <<"{",Q,"a","c","t","i","o","n",Q,":",Q,
      "u","n","s","u","b","s","c","r","i","b","e",Q,",",
      Q,"p","a","r","a","m","s",Q,":",Q>> \o Join(params, <<",">>) \o <<Q,"}">>

\* Result<_, Error>
Res(op, tag) == [op |-> op, tag |-> tag, msg |-> NoMsg]
ResMsg(op, m) == [op |-> op, tag |-> "Ok", msg |-> m]

\* Option<Result<Message, tungstenite::Error>>
ItemNone == [tag |-> "None", msg |-> NoMsg, fused |-> TRUE]
ItemOk(m) == [tag |-> "SomeOk", msg |-> m, fused |-> FALSE]
ItemErr(fused) == [tag |-> "SomeErr", msg |-> NoMsg, fused |-> fused]
NotPolled == [tag |-> "-", msg |-> NoMsg, fused |-> FALSE]

\* Variant: the end of the stream reported as a transport error.
ReceiveResult_ClosedAsWs(item) ==
    IF item.tag \in {"None", "SomeErr"} THEN Res("receive", "Ws")
    ELSE ResMsg("receive", item.msg)

\* Variant: a status frame of a refused authentication turned into an error.
ReceiveResult_StatusChecked(item) ==
    IF item.tag = "None" THEN Res("receive", "Closed")
    ELSE IF item.tag = "SomeErr" \/ item.msg = StatusAuthFailed THEN Res("receive", "Ws")
    ELSE ResMsg("receive", item.msg)

\* websocket.rs:115  item.ok_or(Error::Closed)??
ReceiveResult(item) ==
    IF item.tag = "None" THEN Res("receive", "Closed")
    ELSE IF item.tag = "SomeErr" THEN Res("receive", "Ws")
    ELSE ResMsg("receive", item.msg)

----------------------------------------------------------------------------
(* The transport. *)

\* Variant: a write that takes no notice of the end of the stream.
SendOutcomes_IgnoresEnd ==
    IF link = "up" THEN {TRUE} ELSE {TRUE, FALSE}

\* What a write of one frame can do: it succeeds on a connection that is up,
\* fails on a stream that has ended, and may do either on a connection that
\* is closed or broken while the stream has not yet reported it.
SendOutcomes ==
    IF ended THEN {FALSE}
    ELSE IF link = "up" THEN {TRUE}
    ELSE {TRUE, FALSE}

\* What self.websocket.next() yields once it is ready: the oldest unread
\* frame; with none left, the end of the stream when the peer closed, or an
\* error when the connection broke, which may or may not fuse the stream.
\* On a connection that is up with no unread frame it is not ready.
StreamNext ==
    IF ended THEN {ItemNone}
    ELSE IF inbound # << >> THEN {ItemOk(Head(inbound))}
    ELSE IF link = "closed" THEN {ItemNone}
    ELSE IF link = "broken" THEN {ItemErr(TRUE), ItemErr(FALSE)}
    ELSE {}

\* Variant: new returns the session without writing the auth frame.
authenticate_NotSent(auth_key) == sent

\* websocket.rs:87-91  what is on the transport once authenticate's send succeeded

authenticate(auth_key) == Append(sent, Text(AuthMsg(auth_key)))

----------------------------------------------------------------------------
(* The REST client (src/src/rest.rs). *)

\* rest.rs:33
DEFAULT_API_URL ==
    <<"h","t","t","p","s",":","/","/","a","p","i",".","p","o","l","y","g",
      "o","n",".","i","o">>

\* The values POLYGON_API_URL may hold: unset, or the URL of another server.
LocalUrl ==
    <<"h","t","t","p",":","/","/","l","o","c","a","l","h","o","s","t",":",
      "8","0","8","0">>
ApiUrlEnvValues == {EnvUnset, EnvSet(LocalUrl)}

\* POLYGON_AUTH_KEY holding bytes that are not Unicode: env::var returns
\* Err(VarError::NotUnicode).
EnvNotUnicode == [state |-> "NotUnicode", v |-> <<>>]
RestEnvValues == {EnvUnset, EnvSet(E1), EnvNotUnicode}

\* timeout: Option<core::time::Duration>, in seconds
NoTimeout == [some |-> FALSE, v |-> 0]
SomeTimeout(t) == [some |-> TRUE, v |-> t]
Timeouts == {NoTimeout, SomeTimeout(30)}

\* stocks_ticker: &str
MSFT == <<"M","S","F","T">>
AAPL == <<"A","A","P","L">>
Tickers == {MSFT, AAPL}
NoTicker == << >>

\* query_params: &HashMap<&str, &str>, a function from names to values
KLimit == <<"l","i","m","i","t">>
NoQuery == [k \in {} |-> << >>]
LimitQuery == [k \in {KLimit} |-> <<"1">>]
Queries == {NoQuery, LimitQuery}

\* The endpoint methods of rest.rs:121-218, and those that take stocks_ticker.
Endpoints ==
    {"reference_tickers", "reference_ticker_types", "reference_ticker_details",
     "reference_ticker_details_vx", "reference_ticker_news", "reference_markets",
     "reference_locales", "reference_stock_splits", "reference_stock_dividends"}
TickerEndpoints ==
    {"reference_ticker_details", "reference_ticker_details_vx",
     "reference_stock_splits", "reference_stock_dividends"}

\* The endpoint calls the model draws from.
EndpointCalls ==
    { [endpoint |-> e, stocks_ticker |-> t, query_params |-> q] :
        e \in TickerEndpoints, t \in Tickers, q \in Queries }
    \cup
    { [endpoint |-> e, stocks_ticker |-> NoTicker, query_params |-> q] :
        e \in Endpoints \ TickerEndpoints, q \in Queries }
NoCall == [endpoint |-> "-", stocks_ticker |-> NoTicker, query_params |-> NoQuery]

\* The uri each endpoint method hands to send_request.
\* rest.rs:125
reference_tickers ==
    <<"/","v","3","/","r","e","f","e","r","e","n","c","e","/","t","i","c",
      "k","e","r","s">>
\* rest.rs:136
reference_ticker_types ==
    <<"/","v","2","/","r","e","f","e","r","e","n","c","e","/","t","y","p",
      "e","s">>
\* rest.rs:148
reference_ticker_details(stocks_ticker) ==
    <<"/","v","1","/","m","e","t","a","/","s","y","m","b","o","l","s","/">>
    \o stocks_ticker \o <<"/","c","o","m","p","a","n","y">>
\* rest.rs:161
reference_ticker_details_vx(stocks_ticker) ==
    <<"/","v","X","/","r","e","f","e","r","e","n","c","e","/","t","i","c",
      "k","e","r","s","/">>
    \o stocks_ticker
\* rest.rs:172
reference_ticker_news ==
    <<"/","v","2","/","r","e","f","e","r","e","n","c","e","/","n","e","w",
      "s">>
\* rest.rs:182
reference_markets ==
    <<"/","v","2","/","r","e","f","e","r","e","n","c","e","/","m","a","r",
      "k","e","t","s">>
\* rest.rs:192
reference_locales ==
    <<"/","v","2","/","r","e","f","e","r","e","n","c","e","/","l","o","c",
      "a","l","e","s">>
\* rest.rs:203
reference_stock_splits(stocks_ticker) ==
    <<"/","v","2","/","r","e","f","e","r","e","n","c","e","/","s","p","l",
      "i","t","s","/">>
    \o stocks_ticker
\* rest.rs:215
reference_stock_dividends(stocks_ticker) ==
    <<"/","v","3","/","r","e","f","e","r","e","n","c","e","/","d","i","v",
      "i","d","e","n","d","s","?","t","i","c","k","e","r","=">>
    \o stocks_ticker

UriOf(call) ==
    CASE call.endpoint = "reference_tickers" -> reference_tickers
      [] call.endpoint = "reference_ticker_types" -> reference_ticker_types
      [] call.endpoint = "reference_ticker_details" ->
            reference_ticker_details(call.stocks_ticker)
      [] call.endpoint = "reference_ticker_details_vx" ->
            reference_ticker_details_vx(call.stocks_ticker)
      [] call.endpoint = "reference_ticker_news" -> reference_ticker_news
      [] call.endpoint = "reference_markets" -> reference_markets
      [] call.endpoint = "reference_locales" -> reference_locales
      [] call.endpoint = "reference_stock_splits" ->
            reference_stock_splits(call.stocks_ticker)
      [] call.endpoint = "reference_stock_dividends" ->
            reference_stock_dividends(call.stocks_ticker)

\* What the server answers: a status code and a body.  A body is JSON text or
\* not, and as JSON it is an object with named fields.
Statuses == {101, 200, 204, 304, 404, 500}

FullBody == [json |-> TRUE, fields |-> ("status" :> "OK" @@ "results" :> "r")]
ExtraBody ==
    [json |-> TRUE,
     fields |-> ("status" :> "OK" @@ "results" :> "r" @@ "request_id" :> "x")]
MissingBody == [json |-> TRUE, fields |-> ("status" :> "OK")]
MalformedBody == [json |-> FALSE, fields |-> [f \in {} |-> ""]]
Bodies == {FullBody, ExtraBody, MissingBody, MalformedBody}

\* send().await: Ok(res), or Err(e) when the request got no response
HttpResponse(status, body) == [kind |-> "Ok", status |-> status, body |-> body]
SendFailed == [kind |-> "Err", status |-> 0, body |-> MalformedBody]
NoResponse == [kind |-> "-", status |-> 0, body |-> MalformedBody]
Responses ==
    {SendFailed} \cup {HttpResponse(s, b) : s \in Statuses, b \in Bodies}

\* What a call of the REST client returned.  A reqwest::Error is told apart by
\* kind and carries a status code when it was made from a response's status
\* (status 0: it carries none).
NoValue == [f \in {} |-> ""]
RestOk(op, value) ==
    [op |-> op, tag |-> "Ok", kind |-> "-", status |-> 0, value |-> value]
RestErr(op, kind, status) ==
    [op |-> op, tag |-> "Err", kind |-> kind, status |-> status, value |-> NoValue]
RestPanic(op) ==
    [op |-> op, tag |-> "Panic", kind |-> "-", status |-> 0, value |-> NoValue]
RestNone == [op |-> "-", tag |-> "-", kind |-> "-", status |-> 0, value |-> NoValue]

\* The fields RespType declares; serde ignores the others.
RequiredFields == {"status", "results"}

\* Variant: a decoder that returns what it found when a field is missing.
Json_Partial(op, body) ==
    IF body.json
    THEN RestOk(op, [f \in RequiredFields \cap DOMAIN body.fields |-> body.fields[f]])
    ELSE RestErr(op, "Decode", 0)

\* rest.rs:105  res.json::<RespType>().await
Json(op, body) ==
    IF body.json /\ RequiredFields \subseteq DOMAIN body.fields
    THEN RestOk(op, [f \in RequiredFields |-> body.fields[f]])
    ELSE RestErr(op, "Decode", 0)

\* rest.rs:107  reqwest's Response::error_for_status: Err for a client or server error
\* status, Ok(self) for every other status.
ErrorForStatus(status) ==
    IF status >= 400 /\ status < 600
    THEN [err |-> TRUE, status |-> status]
    ELSE [err |-> FALSE, status |-> 0]

\* rest.rs:102-111  the match on what send().await gave
SendRequestResult(op, res) ==
    IF res.kind = "Ok"
    THEN IF res.status = 200
         THEN Json(op, res.body)
         ELSE LET e == ErrorForStatus(res.status)
              IN IF e.err THEN RestErr(op, "Status", e.status)   \* .err().unwrap()
                 ELSE RestPanic(op)                    \* unwrap of None panics
    ELSE RestErr(op, "Request", 0)

\* rest.rs:60-63
ApiUrl(e) == IF e.state = "Ok" THEN e.v ELSE DEFAULT_API_URL

\* Variant: the environment variable, when set, taken before the argument.
AuthKeyActual_EnvFirst(auth_key, e) ==
    IF e.state = "Ok" THEN [ok |-> TRUE, v |-> e.v]
    ELSE IF auth_key.some THEN [ok |-> TRUE, v |-> auth_key.v]
    ELSE [ok |-> FALSE, v |-> << >>]

\* rest.rs:65-71  auth_key_actual, or the panic
AuthKeyActual(auth_key, e) ==
    IF auth_key.some THEN [ok |-> TRUE, v |-> auth_key.v]
    ELSE IF e.state = "Ok" THEN [ok |-> TRUE, v |-> e.v]
    ELSE [ok |-> FALSE, v |-> << >>]

\* rest.rs:94-98  the request send_request builds
Request(client, uri, query_params) ==
    [method |-> "GET",
     url |-> client.api_url \o uri,
     bearer |-> client.auth_key,
     query |-> query_params]

NoRestClient ==
    [live |-> FALSE, auth_key |-> << >>, api_url |-> << >>, timeout |-> NoTimeout]
NoRestArgs ==
    [called |-> FALSE, auth_key |-> NoneKey, timeout |-> NoTimeout,
     env |-> EnvUnset, api_url_env |-> EnvUnset]

----------------------------------------------------------------------------
(* State. *)

NoClient == [live |-> FALSE, auth_key |-> << >>]
NoArgs == [called |-> FALSE, cluster |-> << >>, auth_key |-> NoneKey, env |-> EnvUnset]

\* No REST client is constructed.
RestUnused ==
    /\ api_url_env = EnvUnset
    /\ rpc = "start"
    /\ rargs = NoRestArgs
    /\ rest = NoRestClient
    /\ rcall = NoCall
    /\ requests = << >>
    /\ response = NoResponse
    /\ rresult = RestNone

\* No WebSocket session is opened.
WsUnused ==
    /\ pc = "start"
    /\ args = NoArgs
    /\ wsc = NoClient
    /\ connects = << >>
    /\ link = "none"
    /\ ended = FALSE
    /\ sent = << >>
    /\ inbound = << >>
    /\ delivered = << >>
    /\ received = << >>
    /\ calls = << >>
    /\ result = Res("-", "-")
    /\ polled = NotPolled

Init ==
    /\ env \in EnvValues
    /\ pc = "start"
    /\ args = NoArgs
    /\ wsc = NoClient
    /\ connects = << >>
    /\ link = "none"
    /\ ended = FALSE
    /\ sent = << >>
    /\ inbound = << >>
    /\ delivered = << >>
    /\ received = << >>
    /\ calls = << >>
    /\ result = Res("-", "-")
    /\ polled = NotPolled
    /\ RestUnused

RestInit ==
    /\ env \in RestEnvValues
    /\ api_url_env \in ApiUrlEnvValues
    /\ rpc = "start"
    /\ rargs = NoRestArgs
    /\ rest = NoRestClient
    /\ rcall = NoCall
    /\ requests = << >>
    /\ response = NoResponse
    /\ rresult = RestNone
    /\ WsUnused

----------------------------------------------------------------------------
(* Operations. *)

\* The process changes POLYGON_AUTH_KEY before it constructs the session.
SetEnv(e) ==
    /\ pc = "start"
    /\ e # env
    /\ env' = e
    /\ UNCHANGED <<pc, args, wsc, connects, link, ended, sent, inbound,
                   delivered, received, calls, result, polled>>
    /\ UNCHANGED restvars

\* Variant: a new that returns the session although the auth frame was not
\* written (the result of authenticate dropped).
New_IgnoresAuthError(cluster, auth_key) ==
    /\ pc = "start"
    /\ args' = [called |-> TRUE, cluster |-> cluster, auth_key |-> auth_key, env |-> env]
    /\ LET key == ResolveKey(auth_key, env)
           url == UrlParse(UrlStr(cluster))
       IN \/ /\ ~key.ok
             /\ result' = Res("new", "Env")
             /\ pc' = "failed"
             /\ UNCHANGED <<wsc, connects, link, sent>>
          \/ /\ key.ok
             /\ connects' = Append(connects, url)
             /\ result' = Res("new", "Ws")
             /\ pc' = "failed"
             /\ UNCHANGED <<wsc, link, sent>>
          \/ /\ key.ok
             /\ connects' = Append(connects, url)
             /\ link' = "broken"
             /\ wsc' = [live |-> TRUE, auth_key |-> key.v]
             /\ result' = Res("new", "Ok")
             /\ pc' = "idle"
             /\ UNCHANGED sent
          \/ /\ key.ok
             /\ connects' = Append(connects, url)
             /\ link' = "up"
             /\ wsc' = [live |-> TRUE, auth_key |-> key.v]
             /\ sent' = authenticate(key.v)
             /\ result' = Res("new", "Ok")
             /\ pc' = "idle"
    /\ UNCHANGED <<env, ended, inbound, delivered, received, calls, polled>>
    /\ UNCHANGED restvars

\* Variant: every failure of new reported as one kind.
New_OpaqueError(cluster, auth_key) ==
    /\ pc = "start"
    /\ args' = [called |-> TRUE, cluster |-> cluster, auth_key |-> auth_key, env |-> env]
    /\ LET key == ResolveKey(auth_key, env)
           url == UrlParse(UrlStr(cluster))
       IN \/ /\ ~key.ok
             /\ result' = Res("new", "Ws")
             /\ pc' = "failed"
             /\ UNCHANGED <<wsc, connects, link, sent>>
          \/ /\ key.ok
             /\ connects' = Append(connects, url)
             /\ result' = Res("new", "Ws")
             /\ pc' = "failed"
             /\ UNCHANGED <<wsc, link, sent>>
          \/ /\ key.ok
             /\ connects' = Append(connects, url)
             /\ result' = Res("new", "Ws")
             /\ pc' = "failed"
             /\ link' = "dropped"
             /\ UNCHANGED <<wsc, sent>>
          \/ /\ key.ok
             /\ connects' = Append(connects, url)
             /\ link' = "up"
             /\ wsc' = [live |-> TRUE, auth_key |-> key.v]
             /\ sent' = authenticate(key.v)
             /\ result' = Res("new", "Ok")
             /\ pc' = "idle"
    /\ UNCHANGED <<env, ended, inbound, delivered, received, calls, polled>>
    /\ UNCHANGED restvars

\* WebSocketClient::new, with authenticate
New(cluster, auth_key) ==
    /\ pc = "start"
    /\ args' = [called |-> TRUE, cluster |-> cluster, auth_key |-> auth_key, env |-> env]
    /\ LET key == ResolveKey(auth_key, env)
           url == UrlParse(UrlStr(cluster))
       IN \/ /\ ~key.ok                         \* env::var(..)? returns Err(Env)
             /\ result' = Res("new", "Env")
             /\ pc' = "failed"
             /\ UNCHANGED <<wsc, connects, link, sent>>
          \/ /\ key.ok                          \* connect_async(url) fails
             /\ connects' = Append(connects, url)
             /\ result' = Res("new", "Ws")
             /\ pc' = "failed"
             /\ UNCHANGED <<wsc, link, sent>>
          \/ /\ key.ok                          \* the auth frame is not written
             /\ connects' = Append(connects, url)
             /\ result' = Res("new", "Ws")
             /\ pc' = "failed"
             /\ link' = "dropped"
             /\ UNCHANGED <<wsc, sent>>
          \/ /\ key.ok                          \* Ok(wsc)
             /\ connects' = Append(connects, url)
             /\ link' = "up"
             /\ wsc' = [live |-> TRUE, auth_key |-> key.v]
             /\ sent' = authenticate(key.v)
             /\ result' = Res("new", "Ok")
             /\ pc' = "idle"
    /\ UNCHANGED <<env, ended, inbound, delivered, received, calls, polled>>
    /\ UNCHANGED restvars

\* Variant: a subscribe that skips a frame equal to the one sent last.
Subscribe_Dedup(params) ==
    /\ pc = "idle"
    /\ Len(calls) + Len(delivered) < MaxEvents
    /\ \E ok \in SendOutcomes :
         LET frame == Text(SubscribeMsg(params))
             write == ok /\ (sent = << >> \/ sent[Len(sent)] # frame)
         IN /\ sent' = IF write THEN Append(sent, frame) ELSE sent
            /\ result' = IF ok THEN Res("subscribe", "Ok") ELSE Res("subscribe", "Ws")
            /\ calls' = Append(calls, [op |-> "subscribe", params |-> params, ok |-> ok])
    /\ polled' = NotPolled
    /\ UNCHANGED <<env, pc, args, wsc, connects, link, ended, inbound,
                   delivered, received>>
    /\ UNCHANGED restvars

\* Variant: a subscribe that reads the server's reply after its write.
Subscribe_AwaitsAck(params) ==
    /\ pc = "idle"
    /\ Len(calls) + Len(delivered) < MaxEvents
    /\ \E ok \in SendOutcomes :
         /\ sent' = IF ok THEN Append(sent, Text(SubscribeMsg(params))) ELSE sent
         /\ result' = IF ok THEN Res("subscribe", "Ok") ELSE Res("subscribe", "Ws")
         /\ calls' = Append(calls, [op |-> "subscribe", params |-> params, ok |-> ok])
         /\ inbound' = IF ok /\ inbound # << >> THEN Tail(inbound) ELSE inbound
    /\ polled' = NotPolled
    /\ UNCHANGED <<env, pc, args, wsc, connects, link, ended,
                   delivered, received>>
    /\ UNCHANGED restvars

\* Variant: a subscribe that authenticates again, with the auth_key field as
\* it is now, before it writes its frame.
Subscribe_Reauthenticates(params) ==
    /\ pc = "idle"
    /\ Len(calls) + Len(delivered) < MaxEvents
    /\ \E ok \in SendOutcomes :
         /\ sent' = IF ok THEN Append(authenticate(wsc.auth_key),
                                       Text(SubscribeMsg(params)))
                    ELSE sent
         /\ result' = IF ok THEN Res("subscribe", "Ok") ELSE Res("subscribe", "Ws")
         /\ calls' = Append(calls, [op |-> "subscribe", params |-> params, ok |-> ok])
    /\ polled' = NotPolled
    /\ UNCHANGED <<env, pc, args, wsc, connects, link, ended, inbound,
                   delivered, received>>
    /\ UNCHANGED restvars

\* Variant: a subscribe on a shared session (&self), free to run while a
\* receive is in progress.
Subscribe_SharedAccess(params) ==
    /\ pc \in {"idle", "in_receive"}
    /\ Len(calls) + Len(delivered) < MaxEvents
    /\ \E ok \in SendOutcomes :
         /\ sent' = IF ok THEN Append(sent, Text(SubscribeMsg(params))) ELSE sent
         /\ result' = IF ok THEN Res("subscribe", "Ok") ELSE Res("subscribe", "Ws")
         /\ calls' = Append(calls, [op |-> "subscribe", params |-> params, ok |-> ok])
    /\ polled' = NotPolled
    /\ UNCHANGED <<env, pc, args, wsc, connects, link, ended, inbound,
                   delivered, received>>
    /\ UNCHANGED restvars

\* Variant: a subscribe that refuses the empty pattern list.
Subscribe_RejectsEmpty(params) ==
    /\ pc = "idle"
    /\ Len(calls) + Len(delivered) < MaxEvents
    /\ \E ok \in SendOutcomes :
         LET write == ok /\ params # << >>
         IN /\ sent' = IF write THEN Append(sent, Text(SubscribeMsg(params))) ELSE sent
            /\ result' = IF params = << >> THEN Res("subscribe", "Rejected")
                         ELSE IF ok THEN Res("subscribe", "Ok")
                         ELSE Res("subscribe", "Ws")
            /\ calls' = Append(calls, [op |-> "subscribe", params |-> params,
                                       ok |-> write])
    /\ polled' = NotPolled
    /\ UNCHANGED <<env, pc, args, wsc, connects, link, ended, inbound,
                   delivered, received>>
    /\ UNCHANGED restvars

\* WebSocketClient::subscribe (websocket.rs:94-101)
Subscribe(params) ==
    /\ pc = "idle"
    /\ Len(calls) + Len(delivered) < MaxEvents
    /\ \E ok \in SendOutcomes :
         /\ sent' = IF ok THEN Append(sent, Text(SubscribeMsg(params))) ELSE sent
         /\ result' = IF ok THEN Res("subscribe", "Ok") ELSE Res("subscribe", "Ws")
         /\ calls' = Append(calls, [op |-> "subscribe", params |-> params, ok |-> ok])
    /\ polled' = NotPolled
    /\ UNCHANGED <<env, pc, args, wsc, connects, link, ended, inbound,
                   delivered, received>>
    /\ UNCHANGED restvars

\* Variant: an unsubscribe that closes the session when its write fails.
Unsubscribe_ClosesOnError(params) ==
    /\ pc = "idle"
    /\ Len(calls) + Len(delivered) < MaxEvents
    /\ \E ok \in SendOutcomes :
         /\ sent' = IF ok THEN Append(sent, Text(UnsubscribeMsg(params))) ELSE sent
         /\ result' = IF ok THEN Res("unsubscribe", "Ok") ELSE Res("unsubscribe", "Ws")
         /\ calls' = Append(calls, [op |-> "unsubscribe", params |-> params, ok |-> ok])
         /\ pc' = IF ok THEN pc ELSE "dropped"
         /\ wsc' = IF ok THEN wsc ELSE NoClient
         /\ link' = IF ok THEN link ELSE "dropped"
    /\ polled' = NotPolled
    /\ UNCHANGED <<env, args, connects, ended, inbound, delivered, received>>
    /\ UNCHANGED restvars

\* WebSocketClient::unsubscribe
Unsubscribe(params) ==
    /\ pc = "idle"
    /\ Len(calls) + Len(delivered) < MaxEvents
    /\ \E ok \in SendOutcomes :
         /\ sent' = IF ok THEN Append(sent, Text(UnsubscribeMsg(params))) ELSE sent
         /\ result' = IF ok THEN Res("unsubscribe", "Ok") ELSE Res("unsubscribe", "Ws")
         /\ calls' = Append(calls, [op |-> "unsubscribe", params |-> params, ok |-> ok])
    /\ polled' = NotPolled
    /\ UNCHANGED <<env, pc, args, wsc, connects, link, ended, inbound,
                   delivered, received>>
    /\ UNCHANGED restvars

\* WebSocketClient::receive is called and awaits self.websocket.next()
ReceiveCall ==
    /\ pc = "idle"
    /\ pc' = "in_receive"
    /\ polled' = NotPolled
    /\ UNCHANGED <<env, args, wsc, connects, link, ended, sent, inbound,
                   delivered, received, calls, result>>
    /\ UNCHANGED restvars

\* Variant: a receive that returns the newest unread frame and drops the rest.
ReceiveReturn_Latest ==
    /\ pc = "in_receive"
    /\ \E item \in (IF ~ended /\ inbound # << >>
                     THEN {ItemOk(inbound[Len(inbound)])} ELSE StreamNext) :
         /\ polled' = item
         /\ result' = ReceiveResult(item)
         /\ inbound' = IF item.tag = "SomeOk" THEN << >> ELSE inbound
         /\ received' = IF result'.tag = "Ok" THEN Append(received, result'.msg)
                        ELSE received
         /\ ended' = (ended \/ item.fused)
    /\ pc' = "idle"
    /\ UNCHANGED <<env, args, wsc, connects, link, sent, delivered, calls>>
    /\ UNCHANGED restvars

\* Variant: a receive that gives up, with a timeout error, when the transport
\* has nothing for it.
ReceiveReturn_TimesOut ==
    /\ pc = "in_receive"
    /\ \E item \in (IF StreamNext = {} THEN {NotPolled} ELSE StreamNext) :
         /\ polled' = item
         /\ result' = IF item = NotPolled THEN Res("receive", "Timeout")
                      ELSE ReceiveResult(item)
         /\ inbound' = IF item.tag = "SomeOk" THEN Tail(inbound) ELSE inbound
         /\ received' = IF result'.tag = "Ok" THEN Append(received, result'.msg)
                        ELSE received
         /\ ended' = (ended \/ item.fused)
    /\ pc' = "idle"
    /\ UNCHANGED <<env, args, wsc, connects, link, sent, delivered, calls>>
    /\ UNCHANGED restvars

\* Variant: a receive that opens a new connection when the stream has ended.
ReceiveReturn_Reconnects ==
    /\ pc = "in_receive"
    /\ \E item \in StreamNext :
         /\ polled' = item
         /\ result' = ReceiveResult(item)
         /\ inbound' = IF item.tag = "SomeOk" THEN Tail(inbound) ELSE inbound
         /\ received' = IF result'.tag = "Ok" THEN Append(received, result'.msg)
                        ELSE received
         /\ IF item.tag = "None"
            THEN /\ connects' = Append(connects, connects[Len(connects)])
                 /\ link' = "up"
                 /\ ended' = FALSE
                 /\ sent' = authenticate(wsc.auth_key)
            ELSE /\ ended' = (ended \/ item.fused)
                 /\ UNCHANGED <<connects, link, sent>>
    /\ pc' = "idle"
    /\ UNCHANGED <<env, args, wsc, delivered, calls>>
    /\ UNCHANGED restvars

\* self.websocket.next() is ready and receive returns (websocket.rs:114-116)
ReceiveReturn ==
    /\ pc = "in_receive"
    /\ \E item \in StreamNext :
         /\ polled' = item
         /\ result' = ReceiveResult(item)
         /\ inbound' = IF item.tag = "SomeOk" THEN Tail(inbound) ELSE inbound
         /\ received' = IF result'.tag = "Ok" THEN Append(received, result'.msg)
                        ELSE received
         /\ ended' = (ended \/ item.fused)
    /\ pc' = "idle"
    /\ UNCHANGED <<env, args, wsc, connects, link, sent, delivered, calls>>
    /\ UNCHANGED restvars

\* The server sends a frame and the transport takes it in.
ServerDeliver(m) ==
    /\ link = "up"
    /\ Len(calls) + Len(delivered) < MaxEvents
    /\ inbound' = Append(inbound, m)
    /\ delivered' = Append(delivered, m)
    /\ UNCHANGED <<env, pc, args, wsc, connects, link, ended, sent,
                   received, calls, result, polled>>
    /\ UNCHANGED restvars

\* The remote peer closes the connection: the frames it sent before are still
\* read, then the stream ends.
PeerClose ==
    /\ link = "up"
    /\ link' = "closed"
    /\ UNCHANGED <<env, pc, args, wsc, connects, ended, sent, inbound,
                   delivered, received, calls, result, polled>>
    /\ UNCHANGED restvars

\* The connection is lost without a close: the frames that arrived before are
\* still read, then reads report an error.
LinkBreak ==
    /\ link = "up"
    /\ link' = "broken"
    /\ UNCHANGED <<env, pc, args, wsc, connects, ended, sent, inbound,
                   delivered, received, calls, result, polled>>
    /\ UNCHANGED restvars

\* The caller assigns to the public field auth_key of the session it holds
\* (websocket.rs:35).
SetAuthKey(k) ==
    /\ pc = "idle"
    /\ wsc.live
    /\ k # wsc.auth_key
    /\ wsc' = [wsc EXCEPT !.auth_key = k]
    /\ UNCHANGED <<env, pc, args, connects, link, ended, sent, inbound,
                   delivered, received, calls, result, polled>>
    /\ UNCHANGED restvars

\* Variant: the transport outlives the client (a shared handle kept elsewhere).
Drop_LeavesOpen ==
    /\ pc = "idle"
    /\ pc' = "dropped"
    /\ wsc' = NoClient
    /\ UNCHANGED <<env, args, connects, link, ended, sent, inbound,
                   delivered, received, calls, result, polled>>
    /\ UNCHANGED restvars

\* The caller drops the WebSocketClient: the struct owns the transport
\* (websocket.rs:34-37), which is closed with it; frames not read are lost.
\* The session has no other close operation.
Drop ==
    /\ pc = "idle"
    /\ pc' = "dropped"
    /\ wsc' = NoClient
    /\ link' = "dropped"
    /\ UNCHANGED <<env, args, connects, ended, sent, inbound,
                   delivered, received, calls, result, polled>>
    /\ UNCHANGED restvars

----------------------------------------------------------------------------
(* Operations of the REST client. *)

\* The process changes POLYGON_AUTH_KEY, at any time.
RestSetEnv(e) ==
    /\ e # env
    /\ env' = e
    /\ UNCHANGED <<wsvars, restvars>>

\* The process changes POLYGON_API_URL, at any time.
SetApiUrlEnv(e) ==
    /\ e # api_url_env
    /\ api_url_env' = e
    /\ UNCHANGED <<env, wsvars, rpc, rargs, rest, rcall, requests, response, rresult>>

\* Variant: a client with an empty key where the key cannot be resolved.
RESTNew_DefaultKey(auth_key, timeout) ==
    /\ rpc = "start"
    /\ rargs' = [called |-> TRUE, auth_key |-> auth_key, timeout |-> timeout,
                 env |-> env, api_url_env |-> api_url_env]
    /\ rest' = [live |-> TRUE, auth_key |-> AuthKeyActual(auth_key, env).v,
                api_url |-> ApiUrl(api_url_env), timeout |-> timeout]
    /\ rresult' = RestOk("new", NoValue)
    /\ rpc' = "ready"
    /\ UNCHANGED <<env, wsvars, api_url_env, rcall, requests, response>>

\* RESTClient::new (rest.rs:59-84)
RESTNew(auth_key, timeout) ==
    /\ rpc = "start"
    /\ rargs' = [called |-> TRUE, auth_key |-> auth_key, timeout |-> timeout,
                 env |-> env, api_url_env |-> api_url_env]
    /\ LET api_url == ApiUrl(api_url_env)
           auth_key_actual == AuthKeyActual(auth_key, env)
       IN IF auth_key_actual.ok
          THEN /\ rest' = [live |-> TRUE, auth_key |-> auth_key_actual.v,
                           api_url |-> api_url, timeout |-> timeout]
               /\ rresult' = RestOk("new", NoValue)
               /\ rpc' = "ready"
          ELSE /\ rresult' = RestPanic("new")     \* panic!("POLYGON_AUTH_KEY not set")
               /\ rpc' = "panicked"
               /\ UNCHANGED rest
    /\ UNCHANGED <<env, wsvars, api_url_env, rcall, requests, response>>

\* Variant: a request to the server POLYGON_API_URL names when the call is
\* made.
EndpointCall_RereadsEnv(call) ==
    /\ rpc = "ready"
    /\ rcall' = call
    /\ requests' = <<Request([rest EXCEPT !.api_url = ApiUrl(api_url_env)],
                              UriOf(call), call.query_params)>>
    /\ response' = NoResponse
    /\ rresult' = RestNone
    /\ rpc' = "in_call"
    /\ UNCHANGED <<env, wsvars, api_url_env, rargs, rest>>

\* An endpoint method is called: it builds its uri, and send_request issues
\* the request and awaits send() (rest.rs:86-100).
EndpointCall(call) ==
    /\ rpc = "ready"
    /\ rcall' = call
    /\ requests' = <<Request(rest, UriOf(call), call.query_params)>>
    /\ response' = NoResponse
    /\ rresult' = RestNone
    /\ rpc' = "in_call"
    /\ UNCHANGED <<env, wsvars, api_url_env, rargs, rest>>

\* send() is ready and the endpoint method returns (rest.rs:102-112).
EndpointReturn(res) ==
    /\ rpc = "in_call"
    /\ response' = res
    /\ rresult' = SendRequestResult(rcall.endpoint, res)
    /\ rpc' = IF rresult'.tag = "Panic" THEN "panicked" ELSE "ready"
    /\ UNCHANGED <<env, wsvars, api_url_env, rargs, rest, rcall, requests>>

----------------------------------------------------------------------------
(* Specifications. *)

\* One WebSocket session, from its construction on.
Next ==
    \/ \E e \in EnvValues : SetEnv(e)
    \/ \E c \in Clusters, k \in KeyArgs : New(c, k)
    \/ \E p \in PatternLists : Subscribe(p)
    \/ \E p \in PatternLists : Unsubscribe(p)
    \/ ReceiveCall
    \/ ReceiveReturn
    \/ \E m \in ServerFrames : ServerDeliver(m)
    \/ PeerClose
    \/ LinkBreak
    \/ Drop

Spec == Init /\ [][Next]_vars

\* The subscribe and unsubscribe calls of one session on the pattern lists at
\* the edge, on a connection that may break.
PatternNext ==
    \/ \E c \in Clusters, k \in KeyArgs : New(c, k)
    \/ \E p \in EdgePatternLists : Subscribe(p)
    \/ \E p \in EdgePatternLists : Unsubscribe(p)
    \/ LinkBreak

PatternSpec == Init /\ [][PatternNext]_vars

\* One session for stocks whose caller also assigns to its auth_key field.
FieldNext ==
    \/ \E k \in KeyArgs : New(STOCKS_CLUSTER, k)
    \/ \E k \in {K1, K2, E1} : SetAuthKey(k)
    \/ \E p \in PatternLists : Subscribe(p)
    \/ Unsubscribe(<<TMSFT>>)
    \/ ReceiveCall
    \/ ReceiveReturn
    \/ ServerDeliver(StatusConnected)
    \/ PeerClose

FieldSpec == Init /\ [][FieldNext]_vars

\* One session whose credential and patterns may hold a double quote or a
\* backslash.
EscapeNext ==
    \/ \E k \in EscapeKeyArgs : New(STOCKS_CLUSTER, k)
    \/ \E p \in EscapePatternLists : Subscribe(p)
    \/ \E p \in EscapePatternLists : Unsubscribe(p)
    \/ LinkBreak

EscapeSpec == Init /\ [][EscapeNext]_vars

\* One REST client, from its construction on.
RestNext ==
    \/ \E e \in RestEnvValues : RestSetEnv(e)
    \/ \E e \in ApiUrlEnvValues : SetApiUrlEnv(e)
    \/ \E k \in KeyArgs, t \in Timeouts : RESTNew(k, t)
    \/ \E c \in EndpointCalls : EndpointCall(c)
    \/ \E r \in Responses : EndpointReturn(r)

RestSpec == RestInit /\ [][RestNext]_vars

\* The two constructors, each called once, in any environment.
ConstructInit ==
    /\ env \in RestEnvValues
    /\ api_url_env \in ApiUrlEnvValues
    /\ WsUnused
    /\ rpc = "start"
    /\ rargs = NoRestArgs
    /\ rest = NoRestClient
    /\ rcall = NoCall
    /\ requests = << >>
    /\ response = NoResponse
    /\ rresult = RestNone

ConstructNext ==
    \/ \E e \in RestEnvValues : RestSetEnv(e)
    \/ \E c \in Clusters, k \in KeyArgs : New(c, k)
    \/ \E k \in KeyArgs, t \in Timeouts : RESTNew(k, t)

ConstructSpec == ConstructInit /\ [][ConstructNext]_vars

----------------------------------------------------------------------------
(* The statements checked, written without the program's own operators. *)

JsonString(str) == <<Q>> \o str \o <<Q>>

\* {"action":"<action>","params":"<params>"}
Envelope(action, params) ==
    <<"{">> \o JsonString(<<"a","c","t","i","o","n">>) \o <<":">> \o JsonString(action)
    \o <<",">> \o JsonString(<<"p","a","r","a","m","s">>) \o <<":">> \o JsonString(params)
    \o <<"}">>

ActAuth == <<"a","u","t","h">>
ActSubscribe == <<"s","u","b","s","c","r","i","b","e">>
ActUnsubscribe == <<"u","n">> \o ActSubscribe

\* The elements of P with a comma between each two neighbours, in input order.
RECURSIVE CommaJoined(_)
CommaJoined(P) ==
    IF Len(P) = 0 THEN << >>
    ELSE IF Len(P) = 1 THEN P[1]
    ELSE CommaJoined(SubSeq(P, 1, Len(P) - 1)) \o <<",">> \o P[Len(P)]

WssUrl(cluster) ==
    <<"w","s","s",":","/","/","s","o","c","k","e","t",".",
      "p","o","l","y","g","o","n",".","i","o","/">> \o cluster

NamedClusters ==
    { <<"s","t","o","c","k","s">>, <<"f","o","r","e","x">>, <<"c","r","y","p","t","o">> }

\* The credential of the call of new: the explicit one, else the environment's.
Credential == IF args.auth_key.some THEN args.auth_key.v ELSE args.env.v

SessionReturned == pc \in {"idle", "in_receive"}

\* The frame a call is to send.
FrameOf(call) ==
    Text(Envelope(IF call.op = "subscribe" THEN ActSubscribe ELSE ActUnsubscribe,
                  CommaJoined(call.params)))

IsOk(call) == call.ok

FramesOfCalls ==
    LET done == SelectSeq(calls, IsOk)
    IN [i \in 1..Len(done) |-> FrameOf(done[i])]

\* {"action":"auth","params":"k1"}
AuthK1Literal ==
    Text(<<"{",Q,"a","c","t","i","o","n",Q,":",Q,"a","u","t","h",Q,",",
           Q,"p","a","r","a","m","s",Q,":",Q,"k","1",Q,"}">>)

\* {"action":"subscribe","params":"T.MSFT,Q.AAPL"}
SubscribeLiteral ==
    Text(<<"{",Q,"a","c","t","i","o","n",Q,":",Q,"s","u","b","s","c","r","i","b","e",Q,",",
           Q,"p","a","r","a","m","s",Q,":",Q,
           "T",".","M","S","F","T",",","Q",".","A","A","P","L",Q,"}">>)

\* {"action":"unsubscribe","params":"T.MSFT,Q.AAPL"}
UnsubscribeLiteral ==
    Text(<<"{",Q,"a","c","t","i","o","n",Q,":",Q,
           "u","n","s","u","b","s","c","r","i","b","e",Q,",",
           Q,"p","a","r","a","m","s",Q,":",Q,
           "T",".","M","S","F","T",",","Q",".","A","A","P","L",Q,"}">>)

ReceiveReturns == pc = "in_receive" /\ pc' = "idle"

\* C1: a successful new(c, k) for a named cluster c has handed connect_async
\* exactly the URL wss://socket.polygon.io/<c>, once, and the first frame on
\* the transport is the auth frame holding the credential, explicit or the
\* environment's, character for character.
C1_ConnectUrlAndAuthFirst ==
    (SessionReturned /\ args.cluster \in NamedClusters) =>
        /\ connects = <<WssUrl(args.cluster)>>
        /\ sent # << >>
        /\ sent[1] = Text(Envelope(ActAuth, Credential))

\* A session for crypto with the credential of the environment, after a
\* first call.
C1_Witness ==
    /\ pc = "idle"
    /\ args.cluster = CRYPTO_CLUSTER
    /\ ~args.auth_key.some
    /\ Len(sent) = 2
    /\ sent[1] = Text(Envelope(ActAuth, E1))

\* C2: a subscribe(P) whose write the transport takes appends exactly one
\* frame, {"action":"subscribe","params":"<P joined by commas in input
\* order>"}, to what was sent; unsubscribe(P) does the same with the action
\* "unsubscribe".
C2_OneFramePerCall ==
    [][\A P \in PatternLists :
         /\ calls' = Append(calls, [op |-> "subscribe", params |-> P, ok |-> TRUE])
              => sent' = Append(sent, Text(Envelope(ActSubscribe, CommaJoined(P))))
         /\ calls' = Append(calls, [op |-> "unsubscribe", params |-> P, ok |-> TRUE])
              => sent' = Append(sent, Text(Envelope(ActUnsubscribe, CommaJoined(P))))
      ]_vars

\* subscribe(["T.MSFT","Q.AAPL"]) then unsubscribe(["T.MSFT","Q.AAPL"]).
C2_Witness ==
    /\ Len(calls) = 2
    /\ calls[1] = [op |-> "subscribe", params |-> <<TMSFT, QAAPL>>, ok |-> TRUE]
    /\ calls[2] = [op |-> "unsubscribe", params |-> <<TMSFT, QAAPL>>, ok |-> TRUE]
    /\ Len(sent) = 3
    /\ sent[2] = SubscribeLiteral
    /\ sent[3] = UnsubscribeLiteral

\* C3: what a session has written to its transport is the auth frame followed
\* by the frame of each call whose write the transport took, in invocation
\* order, each as often as it was called.
C3_FramesInCallOrder ==
    SessionReturned =>
        sent = <<Text(Envelope(ActAuth, Credential))>> \o FramesOfCalls

\* new("stocks", "k1"), then subscribe(["T.MSFT","Q.AAPL"]) twice.
C3_Witness ==
    /\ args.cluster = STOCKS_CLUSTER
    /\ args.auth_key = SomeKey(K1)
    /\ Len(calls) = 2
    /\ sent = <<AuthK1Literal, SubscribeLiteral, SubscribeLiteral>>

\* C4: every frame on the transport that is not the auth frame has the auth
\* frame of the session before it; nothing of the server's reply is needed
\* for it.
C4_AuthSentBeforeControl ==
    \A i \in 1..Len(sent) :
        sent[i] # Text(Envelope(ActAuth, Credential))
            => \E j \in 1..(i - 1) : sent[j] = Text(Envelope(ActAuth, Credential))

\* A subscribe frame was sent while the status reply, an authentication
\* failure, is unread.
C4_Witness ==
    /\ Len(sent) = 2
    /\ calls # << >>
    /\ calls[1].op = "subscribe"
    /\ received = << >>
    /\ inbound = <<StatusAuthFailed>>

\* C5: new without an explicit credential and without POLYGON_AUTH_KEY
\* returns Err(Error::Env), hands nothing to connect_async, opens no
\* transport and writes no frame.
C5_MissingKeyNoIO ==
    (args.called /\ ~args.auth_key.some /\ args.env.state = "NotPresent") =>
        /\ result = Res("new", "Env")
        /\ pc = "failed"
        /\ connects = << >>
        /\ link = "none"
        /\ sent = << >>
        /\ ~wsc.live

C5_Witness ==
    /\ args.called
    /\ ~args.auth_key.some
    /\ args.env.state = "NotPresent"
    /\ result.op = "new"

\* C6: new panics when auth_key is None and POLYGON_AUTH_KEY is not set.
C6_PanicsOnMissingKey ==
    (args.called /\ ~args.auth_key.some /\ args.env.state = "NotPresent") =>
        result.tag = "Panic"

\* C7: a receive that finds the connection closed by the peer, with no frame
\* left unread, returns Err(Error::Closed), not Err(Error::Ws), and the
\* stream has ended: no later step yields a frame and every later receive
\* returns Err(Error::Closed).
C7_RemoteCloseIsClosed ==
    [][/\ (ReceiveReturns /\ link = "closed" /\ inbound = << >>)
            => (result' = Res("receive", "Closed") /\ ended')
       /\ (result = Res("receive", "Closed") \/ ended)
            => /\ received' = received
               /\ ReceiveReturns => result' = Res("receive", "Closed")
      ]_vars

\* The peer closed after two frames; both were received, then the close.
C7_Witness ==
    /\ link = "closed"
    /\ Len(received) = 2
    /\ result = Res("receive", "Closed")
    /\ polled = ItemNone

\* C8: only a returning receive takes a frame from the transport; new,
\* subscribe and unsubscribe leave every inbound frame where it is, so the
\* first frame a receive returns is the first the server sent.
C8_OnlyReceiveConsumes ==
    /\ [](received # << >> => (delivered # << >> /\ received[1] = delivered[1]))
    /\ [][(inbound' # inbound /\ Len(inbound') <= Len(inbound))
             => (ReceiveReturns /\ result'.op = "receive"
                 /\ received' = Append(received, Head(inbound)))
         ]_vars

\* The status frame is the first frame received, two calls having been made.
C8_Witness ==
    /\ Len(calls) = 2
    /\ delivered = <<StatusConnected>>
    /\ received = <<StatusConnected>>
    /\ result = ResMsg("receive", StatusConnected)

\* C9: the frames receive returned are the first frames the transport was
\* given, in the same order.
C9_ReceivedPrefixOfDelivered ==
    /\ Len(received) <= Len(delivered)
    /\ \A i \in 1..Len(received) : received[i] = delivered[i]

C9_Witness ==
    /\ Len(delivered) = 3
    /\ Len(received) = 2
    /\ received[1] # received[2]

\* C10: a receive that returns with a frame unread returns Ok with that one
\* frame as it is, whatever it holds, takes that frame and no other from the
\* transport, and changes nothing else of the session.
C10_FrameReturnedUninterpreted ==
    [][(ReceiveReturns /\ ~ended /\ inbound # << >>)
          => /\ result' = ResMsg("receive", Head(inbound))
             /\ inbound' = Tail(inbound)
             /\ received' = Append(received, Head(inbound))
             /\ UNCHANGED <<wsc, link, ended, sent, connects, calls, args, env>>
      ]_vars

\* The status frame of a refused authentication and a frame of two events
\* were returned as Ok; the session is as it was.
C10_Witness ==
    /\ received = <<StatusAuthFailed, TwoEvents>>
    /\ result = ResMsg("receive", TwoEvents)
    /\ link = "up"
    /\ ~ended
    /\ wsc.live

\* The states of a session that new returned: Active while the caller holds
\* it and its connection is up; Closed once the connection is gone, closed
\* with the dropped client, closed by the peer, or broken.
Active == wsc.live /\ link = "up"
Closed ==
    /\ pc \in {"idle", "in_receive", "dropped"}
    /\ link \in {"dropped", "closed", "broken"}

\* C11: Closed is terminal.  No step of a closed session (a subscribe, an
\* unsubscribe, a receive, or any other) makes it Active again or hands a URL
\* to connect_async; new is the only operation that connects, and a session
\* that was returned has connected exactly once.
C11_ClosedIsTerminal ==
    /\ [](wsc.live \/ pc = "dropped" => Len(connects) = 1)
    /\ [][ /\ (Closed => Closed' /\ ~Active')
           /\ (pc # "start" => connects' = connects) ]_vars

\* A subscribe or unsubscribe was made on a session whose stream had ended by
\* the peer's close, and the session has still connected once.
C11_Witness ==
    /\ link = "closed" /\ ended
    /\ pc = "idle"
    /\ result.op \in {"subscribe", "unsubscribe"}
    /\ Len(connects) = 1
FailedWrite == calls' # calls /\ ~calls'[Len(calls')].ok
FailedRead == ReceiveReturns /\ polled'.tag = "SomeErr"

\* C13: a subscribe or unsubscribe whose write fails and a receive whose read
\* fails return the transport error Ws, and leave the caller with the same
\* session object on the same connection, free to make its next call: the
\* failure closes nothing and connects nothing.
C13_FailureLeavesSession ==
    [][ FailedWrite \/ FailedRead =>
          /\ result'.tag = "Ws"
          /\ wsc' = wsc /\ wsc'.live
          /\ link' = link
          /\ connects' = connects
          /\ pc' = "idle" ]_vars

\* A call whose write failed was followed by a call on the same session whose
\* write went through.
C13_Witness ==
    /\ Len(calls) >= 2
    /\ ~calls[1].ok
    /\ calls[2].ok
    /\ wsc.live
    /\ Len(connects) = 1
\* Why a call of new failed: no credential, or the handshake of connect_async.
MissingCredential == ~args.auth_key.some /\ args.env.state # "Ok"
HandshakeFailed == pc = "failed" /\ connects # << >> /\ link = "none"

\* The error kinds of the calls on a returned session: Ws for a failed write
\* or read, Closed for the peer's close.
SessionErrorKinds == {"Ws", "Closed"}

\* C14, as claimed: a missing credential and a handshake failure are reported
\* by new with different error kinds, and a failed new reports none of the
\* error kinds of a call on a returned session.
C14_NewErrorsOfTheirOwnKind ==
    pc = "failed" =>
        /\ (MissingCredential <=> result.tag = "Env")
        /\ result.tag \notin SessionErrorKinds

\* C14, amended: a missing credential is reported as Env and a handshake
\* failure as Ws, two different kinds; no failure of new is reported as
\* Closed, and Env is reported by no call on a returned session.  Ws is also
\* the kind of a failed write or read of a returned session.
C14_NewErrorKinds ==
    /\ pc = "failed" =>
          /\ result.op = "new"
          /\ (MissingCredential <=> result.tag = "Env")
          /\ (HandshakeFailed => result.tag = "Ws")
          /\ result.tag \in {"Env", "Ws"}
    /\ result.op \in {"subscribe", "unsubscribe", "receive"} =>
          result.tag \in {"Ok"} \cup SessionErrorKinds

\* new failed in the handshake, with a credential at hand.
C14_Witness ==
    /\ HandshakeFailed
    /\ ~MissingCredential
    /\ result = Res("new", "Ws")
\* The answer to the request is in, and the endpoint call is over.
Answered == response.kind = "Ok" /\ rpc \in {"ready", "panicked"}

\* C15: an endpoint call answered with a status outside 200..299 returns an
\* error that carries that status and is of another kind than the error of a
\* request that got no answer; it does not return Ok.
C15_Non2xxIsStatusError ==
    /\ Answered /\ (response.status < 200 \/ response.status > 299) =>
          /\ rresult.tag = "Err"
          /\ rresult.kind = "Status"
          /\ rresult.status = response.status
    /\ response.kind = "Err" => rresult.tag = "Err" /\ rresult.kind # "Status"

\* C16: each constructor given an explicit credential returns a client holding
\* it, whatever POLYGON_AUTH_KEY holds, and does not fail for a missing
\* variable; given none, a client it returns holds the variable's value.
C16_ExplicitKeyFirst ==
    /\ args.called /\ args.auth_key.some =>
          /\ result.tag # "Env"
          /\ wsc.live => wsc.auth_key = args.auth_key.v
    /\ args.called /\ ~args.auth_key.some /\ wsc.live =>
          /\ args.env.state = "Ok"
          /\ wsc.auth_key = args.env.v
    /\ rargs.called /\ rargs.auth_key.some =>
          /\ rresult = RestOk("new", NoValue)
          /\ rest.live
          /\ rest.auth_key = rargs.auth_key.v
    /\ rargs.called /\ ~rargs.auth_key.some /\ rest.live =>
          /\ rargs.env.state = "Ok"
          /\ rest.auth_key = rargs.env.v

\* Both constructors were given the key k1 while POLYGON_AUTH_KEY held envk,
\* and both returned a client.
C16_Witness ==
    /\ wsc.live /\ args.auth_key = SomeKey(<<"k","1">>)
    /\ args.env = EnvSet(<<"e","n","v","k">>)
    /\ rest.live /\ rargs.auth_key = SomeKey(<<"k","1">>)
    /\ rargs.env = EnvSet(<<"e","n","v","k">>)

PathTemplate(endpoint, stocks_ticker) ==
    CASE endpoint = "reference_tickers" ->
            <<"/","v","3","/","r","e","f","e","r","e","n","c","e","/","t",
              "i","c","k","e","r","s">>
      [] endpoint = "reference_ticker_types" ->
            <<"/","v","2","/","r","e","f","e","r","e","n","c","e","/","t","y","p","e","s">>
      [] endpoint = "reference_ticker_details" ->
            <<"/","v","1","/","m","e","t","a","/","s","y","m","b","o","l","s","/">>
            \o stocks_ticker \o <<"/","c","o","m","p","a","n","y">>
      [] endpoint = "reference_ticker_details_vx" ->
            <<"/","v","X","/","r","e","f","e","r","e","n","c","e","/","t",
              "i","c","k","e","r","s","/">>
            \o stocks_ticker
      [] endpoint = "reference_ticker_news" ->
            <<"/","v","2","/","r","e","f","e","r","e","n","c","e","/","n","e","w","s">>
      [] endpoint = "reference_markets" ->
            <<"/","v","2","/","r","e","f","e","r","e","n","c","e","/","m",
              "a","r","k","e","t","s">>
      [] endpoint = "reference_locales" ->
            <<"/","v","2","/","r","e","f","e","r","e","n","c","e","/","l",
              "o","c","a","l","e","s">>
      [] endpoint = "reference_stock_splits" ->
            <<"/","v","2","/","r","e","f","e","r","e","n","c","e","/","s",
              "p","l","i","t","s","/">>
            \o stocks_ticker
      [] endpoint = "reference_stock_dividends" ->
            <<"/","v","3","/","r","e","f","e","r","e","n","c","e","/","d",
              "i","v","i","d","e","n","d","s","/">>
            \o stocks_ticker

\* An endpoint call was made and its request issued.
Called == rcall.endpoint # "-"

\* C18: the one request of an endpoint call is a GET of api_url followed by
\* the endpoint's path with the ticker filled in, it carries the client's
\* auth_key as bearer token, and its query parameters are those the caller
\* gave: the URL holds none of its own.
C18_RequestAsDocumented ==
    Called =>
        /\ Len(requests) = 1
        /\ requests[1].method = "GET"
        /\ requests[1].url =
               rest.api_url \o PathTemplate(rcall.endpoint, rcall.stocks_ticker)
        /\ \A i \in 1..Len(requests[1].url) : requests[1].url[i] # "?"
        /\ requests[1].bearer = rest.auth_key
        /\ requests[1].query = rcall.query_params

\* C19: no call makes a second attempt, and a failed attempt is returned to
\* the caller.  An endpoint call issues one request, and returns an error
\* when the request gets no answer or an answer with a status outside
\* 200..299; new hands one URL to connect_async and returns an error when it
\* fails; a subscribe or unsubscribe whose write fails and a receive whose
\* read fails return an error.
C19_OneAttemptFailureReturned ==
    /\ Len(requests) <= 1
    /\ Len(connects) <= 1
    /\ Called /\ rpc # "in_call" =>
          /\ response.kind = "Err" => rresult.tag = "Err"
          /\ Answered /\ (response.status < 200 \/ response.status > 299) =>
                rresult.tag = "Err"
    /\ pc = "failed" => result.op = "new" /\ result.tag \in {"Env", "Ws"}
    /\ polled.tag = "SomeErr" => result = Res("receive", "Ws")
    /\ polled.tag = "None" => result = Res("receive", "Closed")
    /\ (calls # << >> /\ ~calls[Len(calls)].ok /\ result.op = calls[Len(calls)].op)
          => result.tag = "Ws"

\* {"action":"subscribe","params":""}
EmptySubscribeLiteral ==
    Text(<<"{",Q,"a","c","t","i","o","n",Q,":",Q,"s","u","b","s","c","r",
      "i","b","e",Q,",",Q,"p","a","r","a","m","s",Q,":",Q,Q,"}">>)

\* {"action":"unsubscribe","params":""}
EmptyUnsubscribeLiteral ==
    Text(<<"{",Q,"a","c","t","i","o","n",Q,":",Q,"u","n","s","u","b","s",
      "c","r","i","b","e",Q,",",Q,"p","a","r","a","m","s",Q,":",Q,Q,"}">>)

\* A subscribe or unsubscribe returns, made with the empty pattern list.
EmptyListCall(op) ==
    /\ Len(calls') = Len(calls) + 1
    /\ calls'[Len(calls')].op = op
    /\ calls'[Len(calls')].params = << >>

\* C20: a subscribe or unsubscribe given the empty pattern list is not
\* refused: on a connection that is up it returns Ok, and whenever its write
\* goes through it has written one frame, {"action":"subscribe","params":""}
\* or {"action":"unsubscribe","params":""}; it fails only as any other call
\* does, with Ws when the write fails.
C20_EmptyListAccepted ==
    [][ /\ EmptyListCall("subscribe") =>
             /\ link = "up" => result' = Res("subscribe", "Ok")
             /\ result'.tag = "Ok" => sent' = Append(sent, EmptySubscribeLiteral)
             /\ result'.tag # "Ok" => result'.tag = "Ws" /\ sent' = sent
        /\ EmptyListCall("unsubscribe") =>
             /\ link = "up" => result' = Res("unsubscribe", "Ok")
             /\ result'.tag = "Ok" => sent' = Append(sent, EmptyUnsubscribeLiteral)
             /\ result'.tag # "Ok" => result'.tag = "Ws" /\ sent' = sent ]_vars

\* The session has sent, after the auth frame, the subscribe frame and the
\* unsubscribe frame of the empty list.
C20_Witness ==
    /\ Len(sent) = 3
    /\ sent[2] = EmptySubscribeLiteral
    /\ sent[3] = EmptyUnsubscribeLiteral
    /\ calls[1].params = << >> /\ calls[2].params = << >>
\* C21: receive has no timeout.  It returns only from a state in which the
\* transport has something for it: an unread frame, the end of the stream
\* after the peer's close, or an error of the broken connection.  While the
\* connection is up and no frame is unread, a receive in progress stays in
\* progress; and what it returns is the frame, Closed or Ws.
C21_ReceiveWaitsForTransport ==
    [][ ReceiveReturns =>
          /\ inbound # << >> \/ link \in {"closed", "broken"} \/ ended
          /\ result'.op = "receive"
          /\ result'.tag \in {"Ok", "Closed", "Ws"} ]_vars

\* A receive is in progress on a connection that is up, with every frame the
\* server delivered already read.
C21_Witness ==
    /\ pc = "in_receive"
    /\ link = "up" /\ ~ended
    /\ inbound = << >>
    /\ received # << >>

Decodable(body) == body.json /\ {"status", "results"} \subseteq DOMAIN body.fields
Decoded(body) == [f \in {"status", "results"} |-> body.fields[f]]

C24_SendRequestNeverPanics ==
    Called /\ Answered => rresult.tag \in {"Ok", "Err"}
\* new opened the transport and failed to write the auth frame.
AuthSendFailed == pc = "failed" /\ link = "dropped"

\* C25: new resolves the credential, builds the URL, opens the transport and
\* sends the auth frame, in this order, and stops at the first step that
\* fails.  Once new has returned, and before anything else happens: a session is
\* returned exactly when the result is Ok, and exactly when the credential
\* was resolved, one URL was handed to connect_async, the connection is up
\* and the auth frame is the one frame written; without a credential nothing
\* is connected or written; after a failed handshake nothing is written;
\* after a failed write of the auth frame the transport was opened and no
\* session is returned; the URL connected to is the one built for the cluster.
C25_NewStopsAtFirstFailure ==
    args.called =>
        /\ wsc.live <=> result = Res("new", "Ok")
        /\ wsc.live <=>
              /\ ~MissingCredential
              /\ Len(connects) = 1
              /\ link = "up"
              /\ sent = <<Text(Envelope(ActAuth, Credential))>>
        /\ MissingCredential =>
              result = Res("new", "Env") /\ connects = << >> /\ sent = << >>
        /\ HandshakeFailed =>
              result = Res("new", "Ws") /\ sent = << >> /\ ~wsc.live
        /\ AuthSendFailed =>
              /\ result = Res("new", "Ws")
              /\ Len(connects) = 1
              /\ sent = << >>
              /\ ~wsc.live
        /\ (connects # << >> /\ args.cluster \in NamedClusters) =>
              connects = <<WssUrl(args.cluster)>>

\* new opened the transport, failed to write the auth frame and returned no
\* session.
C25_Witness ==
    /\ AuthSendFailed
    /\ Len(connects) = 1
    /\ result = Res("new", "Ws")
    /\ ~wsc.live
\* A frame that begins {"action":"auth"
IsAuthFrame(m) ==
    LET pre == <<"{",Q,"a","c","t","i","o","n",Q,":",Q,"a","u","t","h",Q>>
    IN /\ Len(m.payload) >= Len(pre)
       /\ SubSeq(m.payload, 1, Len(pre)) = pre

AuthFrames == {i \in 1..Len(sent) : IsAuthFrame(sent[i])}

\* C26: a session has sent exactly one auth frame, its first frame, holding
\* the credential new resolved; every frame written later is the frame of
\* the subscribe or unsubscribe call that writes it, whatever the caller has
\* assigned to the auth_key field in between, and an assignment to the field
\* writes nothing.
C26_OneAuthFrame ==
    /\ [](wsc.live =>
            /\ AuthFrames = {1}
            /\ sent[1] = Text(Envelope(ActAuth, Credential)))
    /\ [][ wsc.live /\ sent' # sent =>
             /\ Len(calls') = Len(calls) + 1
             /\ sent' = Append(sent, FrameOf(calls'[Len(calls')])) ]_vars
    /\ [][ wsc.live /\ wsc'.auth_key # wsc.auth_key => sent' = sent ]_vars

\* The caller has given the auth_key field another value than the credential
\* of new, and the session has sent two frames after its auth frame and
\* received one.
C26_Witness ==
    /\ wsc.live
    /\ wsc.auth_key # Credential
    /\ Len(sent) = 3
    /\ received # << >>
\* A reader of JSON text, for objects whose members are strings.
JsonFail == [ok |-> FALSE, v |-> << >>, next |-> 0]

\* The characters of a JSON string from position i, behind its opening quote,
\* up to its closing quote: the string's value and the position behind it.
RECURSIVE JsonChars(_, _, _)
JsonChars(s, i, acc) ==
    IF i > Len(s) THEN JsonFail
    ELSE IF s[i] = Q THEN [ok |-> TRUE, v |-> acc, next |-> i + 1]
    ELSE IF s[i] = "\\"
         THEN IF i + 1 > Len(s) THEN JsonFail
              ELSE IF s[i + 1] \in {Q, "\\", "/"}
                   THEN JsonChars(s, i + 2, Append(acc, s[i + 1]))
              ELSE IF s[i + 1] \in {"b", "f", "n", "r", "t"}
                   THEN JsonChars(s, i + 2, Append(acc, "control-" \o s[i + 1]))
              ELSE JsonFail
    ELSE JsonChars(s, i + 1, Append(acc, s[i]))

JsonStringAt(s, i) ==
    IF i <= Len(s) /\ s[i] = Q THEN JsonChars(s, i + 1, << >>) ELSE JsonFail

\* The members name:value of a JSON object from position i, behind "{" or
\* ",", up to the "}" that ends the text.
RECURSIVE JsonMembers(_, _, _)
JsonMembers(s, i, acc) ==
    LET name == JsonStringAt(s, i)
    IN IF ~name.ok \/ name.next > Len(s) \/ s[name.next] # ":" THEN JsonFail
       ELSE LET value == JsonStringAt(s, name.next + 1)
                members == Append(acc, <<name.v, value.v>>)
            IN IF ~value.ok \/ value.next > Len(s) THEN JsonFail
               ELSE IF s[value.next] = "," THEN JsonMembers(s, value.next + 1, members)
               ELSE IF s[value.next] = "}" /\ value.next = Len(s)
                    THEN [ok |-> TRUE, v |-> members, next |-> value.next + 1]
               ELSE JsonFail

JsonObject(s) ==
    IF Len(s) >= 2 /\ s[1] = "{" THEN JsonMembers(s, 2, << >>) ELSE JsonFail

\* The frame is a JSON object with the two members action and params, of
\* these values.
IsEnvelope(m, action, params) ==
    LET o == JsonObject(m.payload)
    IN /\ o.ok
       /\ o.v = << <<<<"a","c","t","i","o","n">>, action>>,
                   <<<<"p","a","r","a","m","s">>, params>> >>

\* C27: every frame the session has written is a well-formed JSON object
\* with exactly the members action and params: the first with action auth
\* and the credential as params, the frame of each call with the call's
\* action and its patterns joined by commas as params.
C27_FramesAreJson ==
    SessionReturned =>
        LET done == SelectSeq(calls, IsOk)
        IN /\ Len(sent) = Len(done) + 1
           /\ IsEnvelope(sent[1], ActAuth, Credential)
           /\ \A i \in 1..Len(done) :
                 IsEnvelope(sent[i + 1],
                            IF done[i].op = "subscribe" THEN ActSubscribe
                            ELSE ActUnsubscribe,
                            CommaJoined(done[i].params))
\* The subscribe calls that returned Ok, each with the frame it wrote.
Subscribed ==
    LET done == SelectSeq(calls, IsOk)
    IN { [params |-> done[i].params, frame |-> sent[i + 1]] :
           i \in { j \in 1..Len(done) : done[j].op = "subscribe" } }

\* C28 as stated: two pattern lists of comma-free patterns, the empty list and
\* lists with empty patterns included, that give the same subscribe frame
\* are the same list.
C28_SubscribeInjective ==
    SessionReturned =>
        \A a, b \in Subscribed : a.frame = b.frame => a.params = b.params

\* C28: two different lists of comma-free patterns give the same subscribe
\* frame only when they are the empty list and the list of one empty
\* pattern; on non-empty lists the mapping is injective.
C28_SubscribeInjectiveOnNonEmpty ==
    SessionReturned =>
        \A a, b \in Subscribed :
            a.frame = b.frame =>
                \/ a.params = b.params
                \/ {a.params, b.params} = {<< >>, <<EmptyPattern>>}

C28_Witness ==
    /\ SessionReturned
    /\ \E a, b, c \in Subscribed :
          /\ a.params = << >> /\ b.params = <<EmptyPattern>>
          /\ c.params = <<EmptyPattern, EmptyPattern>>
          /\ a.frame = b.frame
          /\ c.frame # a.frame
\* A subscribe or unsubscribe is made.
CallMade == Len(calls') = Len(calls) + 1

RestCredential ==
    IF rargs.auth_key.some THEN rargs.auth_key.v ELSE rargs.env.v
RestServer ==
    IF rargs.api_url_env.state = "Ok" THEN rargs.api_url_env.v
    ELSE <<"h","t","t","p","s",":","/","/","a","p","i",".","p","o","l","y","g",
           "o","n",".","i","o">>

\* C30: a RESTClient holds the credential and the URL resolved at its
\* construction for as long as it lives: no request and no later change of
\* POLYGON_AUTH_KEY or POLYGON_API_URL changes the client, and every request
\* carries that credential and goes to that URL.
C30_ClientUnchanged ==
    /\ [](rest.live => /\ rest.auth_key = RestCredential
                        /\ rest.api_url = RestServer)
    /\ [](Called => /\ requests[1].bearer = RestCredential
                     /\ Len(requests[1].url) >= Len(RestServer)
                     /\ SubSeq(requests[1].url, 1, Len(RestServer)) = RestServer)
    /\ [][ rest.live => rest' = rest ]_vars

\* A client built from the environment has made a request that was answered,
\* and both variables now hold other values than at its construction.
C30_Witness ==
    /\ Called /\ Answered
    /\ ~rargs.auth_key.some
    /\ rargs.api_url_env = EnvSet(LocalUrl)
    /\ env # rargs.env
    /\ api_url_env # rargs.api_url_env
====
